---- MODULE Spec2Model ----
(***************************************************************************)
(* Model of src/main.py: the TradingView -> Bitget webhook bot.            *)
(*                                                                         *)
(* Flask serves every POST /webhook on a thread of its own, so several     *)
(* webhook() calls run interleaved on the module globals position_state    *)
(* and last_action and on the one exchange account.  A thread can be       *)
(* pre-empted between any two statements; the model cuts webhook() at the  *)
(* statements that read or write shared state (the two stores of           *)
(* is_duplicate, the positions fetch, every order, update_state).          *)
(*                                                                         *)
(* Units: balance and price in whole USDT, quantities in 1/10000 of a       *)
(* contract (round(x, 4)), time in whole seconds.  Timestamps are kept      *)
(* relative to the present: time.time() reads 0, and a second passing moves *)
(* every stored timestamp one second into the past.  is_duplicate only      *)
(* tests whether a difference is below DEDUP_WINDOW, so a timestamp older   *)
(* than that is kept at -DEDUP_WINDOW.                                      *)
(***************************************************************************)
EXTENDS Integers, Sequences, FiniteSets, TLC

\* ---------------------------------------------------------------- constants

\* main.py:18
LEVERAGE == 2
\* main.py:20, POSITION_SIZE_PERCENT = 0.5, as a percentage
POSITION_SIZE_PERCENT == 50
\* main.py:21
MAX_PYRAMIDING == 2
\* main.py:173, the literal 2 of is_duplicate
DEDUP_WINDOW == 2
\* main.py:255, the second argument of round()
ROUND_DIGITS == 4
\* main.py:243, range(3)
POLL_ATTEMPTS == 3
\* spec.md section 8, scenario E: minNotional = 5 (the code has no such constant)
MinNotional == 5

\* ------------------------------------------------------------------- bounds

\* webhook deliveries in one behaviour
MaxRequests == 3
\* the balances 0..SizingBalanceMax and prices 1..SizingPriceMax an order is
\* sized from
SizingBalanceMax == 6
SizingPriceMax == 4
\* the request threads, in the order a delivery is given a free one
ThreadSeq == <<"t1", "t2">>
Threads == {ThreadSeq[i] : i \in DOMAIN ThreadSeq}
Rank(t) == CHOOSE i \in DOMAIN ThreadSeq : ThreadSeq[i] = t

\* a JSON value of a payload field: a string, a number, or the field missing
Str(s) == [kind |-> "str", s |-> s, n |-> 0]
Num(n) == [kind |-> "num", s |-> "", n |-> n]
Absent == [kind |-> "absent", s |-> "", n |-> 0]

\* the body of a POST /webhook: whether it is JSON, and its four fields
Payload(is_json, a, mp, prev, size) ==
    [is_json |-> is_json, action |-> a, marketPosition |-> mp,
     prevMarketPosition |-> prev, positionSize |-> size]

\* a TradingView alert: action, marketPosition, prevMarketPosition,
\* positionSize
Signal(a, mp, prev, size) == Payload(TRUE, Str(a), Str(mp), Str(prev), Num(size))
Signals ==
    { Signal("buy", "long", "flat", 1),     \* enter long
      Signal("buy", "long", "long", 2),     \* add to a long
      Signal("buy", "long", "short", 1),    \* short to long
      Signal("sell", "short", "flat", 1),   \* enter short
      Signal("sell", "short", "short", 2),  \* add to a short
      Signal("sell", "short", "long", 1),   \* long to short
      Signal("sell", "flat", "long", 0),    \* exit
      Signal("sell", "flat", "long", 1) }   \* exit that reports a size

\* what else can be posted: three alerts that trade, then bodies that are not
\* an alert and alerts whose action and marketPosition do not go together
Payloads ==
    { Signal("buy", "long", "long", 2),
      Signal("sell", "short", "long", 1),
      Signal("sell", "flat", "long", 0),
      Payload(TRUE, Str("BUY"), Str("Long"), Str("long"), Str("2")),
      Payload(FALSE, Absent, Absent, Absent, Absent),               \* not JSON
      Payload(TRUE, Absent, Str("flat"), Absent, Absent),           \* no action
      Payload(TRUE, Num(1), Str("long"), Str("flat"), Num(1)),      \* action 1
      Payload(TRUE, Str("buy"), Str("long"), Str("flat"), Str("all")),
      Signal("buy", "short", "flat", 1),
      Signal("sell", "long", "flat", 1),
      Signal("buy", "flat", "long", 1) }

\* what the exchange answers: last price, available balance, outcome of a
\* place-order call
None == "None"
Prices == {0, 2}
Balances == {0, 4}
Outcomes == {"ok", "rejected", "timeout"}

VARIABLES
    position_state,   \* main.py:23
    last_action,      \* main.py:25
    account,          \* the exchange's open quantity per hold side
    req,              \* per thread: the locals of its webhook() call
    nreq,             \* deliveries so far
    rec_owner,        \* history: whose request wrote the record of last_action
    rec_orders,       \* history: the place-order calls that request has made
    rec_status        \* history: the answer that request was given

vars == <<position_state, last_action, account, req, nreq, rec_owner,
          rec_orders, rec_status>>

\* ------------------------------------------------------------ pure helpers

Zero == [long |-> 0, short |-> 0]

\* the hold side an order side opens (buy opens long, sell opens short), and
\* the hold side a reduce-only order of that side closes
HoldSide(side) == IF side = "buy" THEN "long" ELSE "short"
Opposite(hold) == IF hold = "long" THEN "short" ELSE "long"

\* main.py:196  request.get_json() if request.is_json else {}
get_json(body) ==
    IF body.is_json THEN body ELSE Payload(FALSE, Absent, Absent, Absent, Absent)

\* str.lower() on the spellings delivered
Lower(s) ==
    IF s = "BUY" THEN "buy"
    ELSE IF s = "Long" THEN "long"
    ELSE s

\* main.py:198-200  data.get(k, '').lower(): '' when the field is missing, an
\* AttributeError when its value is a number
GetLower(v) == IF v.kind = "str" THEN Lower(v.s) ELSE ""
GetLowerRaises(v) == v.kind = "num"

\* float() of a string: its value when the string is a numeral
Numerals == ("0" :> 0) @@ ("1" :> 1) @@ ("2" :> 2)

\* main.py:201  float(data.get('positionSize', 0)): 0 when the field is
\* missing, a ValueError when its value is a string that is no numeral
GetFloat(v) ==
    IF v.kind = "num" THEN v.n
    ELSE IF v.kind = "str" /\ v.s \in DOMAIN Numerals THEN Numerals[v.s]
    ELSE 0
GetFloatRaises(v) == v.kind = "str" /\ v.s \notin DOMAIN Numerals

\* main.py:196-201  the locals webhook() reads from the body, and whether one
\* of the four statements raised
Parse(body) ==
    LET data == get_json(body) IN
    [raised |-> \/ GetLowerRaises(data.action)
                \/ GetLowerRaises(data.marketPosition)
                \/ GetLowerRaises(data.prevMarketPosition)
                \/ GetFloatRaises(data.positionSize),
     action |-> GetLower(data.action),
     market_position |-> GetLower(data.marketPosition),
     prev_market_position |-> GetLower(data.prevMarketPosition),
     position_size |-> GetFloat(data.positionSize)]

\* main.py:203  key = f"{action}_{market_position}_{position_size}"
Key(action, market_position, position_size) ==
    <<action, market_position, position_size>>

\* is_duplicate with the window test turned round
IsDuplicate_Reversed(la, key, current_time) ==
    la.key = key /\ (current_time - la.time) >= DEDUP_WINDOW

\* is_duplicate that throttles whatever the key
IsDuplicate_AnyKey(la, key, current_time) ==
    (current_time - la.time) < DEDUP_WINDOW

\* is_duplicate with the elapsed time taken in milliseconds
IsDuplicate_Millis(la, key, current_time) ==
    la.key = key /\ (current_time - la.time) * 1000 < DEDUP_WINDOW

\* main.py:173  the test of is_duplicate on the record la
IsDuplicate(la, key, current_time) ==
    la.key = key /\ (current_time - la.time) < DEDUP_WINDOW

\* a timestamp ts seen d seconds later (the present is 0)
Past(ts, d) == IF ts - d < 0 - DEDUP_WINDOW THEN 0 - DEDUP_WINDOW ELSE ts - d

RECURSIVE Pow10(_)
Pow10(n) == IF n = 0 THEN 1 ELSE 10 * Pow10(n - 1)

\* round(num / den, ROUND_DIGITS) in units of 10^-ROUND_DIGITS: Python rounds
\* to the nearest, a tie to the even neighbour
RoundHalfEven(num, den) ==
    LET q == num \div den
        r == num % den
    IN  IF 2 * r < den THEN q
        ELSE IF 2 * r > den THEN q + 1
        ELSE IF q % 2 = 0 THEN q ELSE q + 1

\* main.py:255  round((balance * POSITION_SIZE_PERCENT * LEVERAGE) / price, 4)
Quantity(balance, price) ==
    RoundHalfEven(balance * POSITION_SIZE_PERCENT * LEVERAGE * Pow10(ROUND_DIGITS),
                  100 * price)

\* balance * POSITION_SIZE_PERCENT * LEVERAGE, times 100
Exposure100(balance) == balance * POSITION_SIZE_PERCENT * LEVERAGE

\* webhook() choosing the branch by the action alone
Branch_ActionOnly(action, market_position, prev_market_position, position_size, positions) ==
    IF position_size = 0 /\ market_position = "flat" THEN "flat"
    ELSE IF action \in {"buy", "sell"} THEN
        IF prev_market_position = Opposite(HoldSide(action)) THEN "reverse"
        ELSE IF positions[HoldSide(action)] > 0 THEN "pyramid"
        ELSE "new"
    ELSE "ignored"

\* main.py:219-371  which branch of webhook() a signal takes, given the
\* positions it fetched
Branch(action, market_position, prev_market_position, position_size, positions) ==
    IF position_size = 0 /\ market_position = "flat" THEN "flat"
    ELSE IF action \in {"buy", "sell"} THEN
        LET hold == HoldSide(action) IN
        IF prev_market_position = Opposite(hold) /\ market_position = hold
            THEN "reverse"
        ELSE IF market_position = hold /\ positions[hold] > 0 THEN "pyramid"
        ELSE IF market_position = hold THEN "new"
        ELSE "ignored"
    ELSE "ignored"

\* main.py:98-105  the last price when the ticker call answered 00000 with a
\* positive price, None otherwise; None is written 0 here, the two being alike
\* to the caller's "if not price"
get_current_price(lastPr, api_ok) ==
    IF api_ok /\ lastPr > 0 THEN lastPr ELSE 0

\* main.py:88-96  the available balance, 0.0 when the call failed
get_account_balance(available, api_ok) == IF api_ok THEN available ELSE 0

\* main.py:107-125  the open quantity per hold side, zeros when the call failed
get_positions(acc, api_ok) == IF api_ok THEN acc ELSE Zero

\* bitget_request sending a failed request a second time
bitget_request_sends_Retry(outcome) == IF outcome = "ok" THEN 1 ELSE 2

\* main.py:59-66  bitget_request sends the HTTP request once, whatever comes back
bitget_request_sends(outcome) == 1

\* the HTTP requests one call makes, as log entries
Sent(call, n) == [i \in 1..n |-> call]

Call(op, side, qty, outcome) ==
    [op |-> op, side |-> side, qty |-> qty, ok |-> (outcome = "ok")]

\* main.py:127-146, 148-169  place-order as the exchange sees it: "ok" executes
\* and answers 00000, "rejected" does nothing and answers an error, "timeout"
\* executes but the answer is lost (bitget_request returns None)
Executed(outcome) == outcome \in {"ok", "timeout"}

Min(a, b) == IF a < b THEN a ELSE b

\* an opening market order of qty on the order side
ExecOpen(acc, side, qty) ==
    [acc EXCEPT ![HoldSide(side)] = @ + qty]

\* a reduce-only market order of qty on the order side: it reduces the
\* opposite hold side (sell reduces long, buy reduces short)
ExecClose(acc, side, qty) ==
    [acc EXCEPT ![Opposite(HoldSide(side))] = @ - Min(qty, @)]

\* the outcomes the exchange can give: it rejects a size of 0, and a reduce-only
\* order with nothing to reduce
OpenOutcomes(qty) == IF qty > 0 THEN Outcomes ELSE {"rejected"}
CloseOutcomes(acc, side) ==
    IF acc[Opposite(HoldSide(side))] > 0 THEN Outcomes ELSE {"rejected"}

\* update_state that leaves the other side's counter as it is
update_state_KeepOther(ps, action) ==
    IF action = "add_long"
        THEN [ps EXCEPT !.long_entries = @ + 1]
    ELSE IF action = "add_short"
        THEN [ps EXCEPT !.short_entries = @ + 1]
    ELSE IF action = "reset"
        THEN [long_entries |-> 0, short_entries |-> 0]
    ELSE ps

\* main.py:179-191  update_state, under state_lock
update_state(ps, action) ==
    IF action = "add_long"
        THEN [long_entries |-> ps.long_entries + 1, short_entries |-> 0]
    ELSE IF action = "add_short"
        THEN [long_entries |-> 0, short_entries |-> ps.short_entries + 1]
    ELSE IF action = "reset"
        THEN [long_entries |-> 0, short_entries |-> 0]
    ELSE ps

Entries(ps, hold) == IF hold = "long" THEN ps.long_entries ELSE ps.short_entries

\* the signal asks for the side market_position, of which positions show an open
\* position whose entries have reached MAX_PYRAMIDING
AtCap(market_position, positions, ps) ==
    /\ market_position \in {"long", "short"}
    /\ positions[market_position] > 0
    /\ Entries(ps, market_position) >= MAX_PYRAMIDING

\* the confirmation loop that reads until the position is gone
PollDone_Unbounded(remaining, polls) == remaining = 0

\* main.py:243-247  the confirmation loop ends when the closed side reads 0, or
\* with its third read
PollDone(remaining, polls) == remaining = 0 \/ polls = POLL_ATTEMPTS

\* ---------------------------------------------------------------- the state

\* the locals of a webhook() call that has not started
BlankReq ==
    [pc |-> "idle", action |-> "", market_position |-> "",
     prev_market_position |-> "", position_size |-> 0,
     current_time |-> 0,
     price |-> 0, balance |-> 0, positions |-> Zero,
     path |-> "none", polls |-> 0,
     calls |-> <<>>,          \* history: the Bitget calls made, in order
     state_op |-> "none",     \* history: the update_state call made
     snap |-> Zero,           \* history: the positions fetched at line 215
     md_failed |-> FALSE,     \* history: a price, balance or positions call failed
     repeat |-> FALSE,        \* history: the signal repeats the recorded one
     capped |-> FALSE,        \* history: fetched an open position at the cap
     status |-> "none"]

\* rec_owner is a thread while that thread's request is the one that wrote
\* both fields of last_action, Answered once that request has been answered,
\* and NoOwner when the two fields come from different requests
NoOwner == "none"
Answered == "answered"

Init ==
    /\ position_state = [long_entries |-> 0, short_entries |-> 0]
    /\ last_action = [key |-> <<None>>, time |-> Past(0, DEDUP_WINDOW)]
    /\ account = Zero
    /\ req = [t \in Threads |-> BlankReq]
    /\ nreq = 0
    /\ rec_owner = NoOwner
    /\ rec_orders = 0
    /\ rec_status = "none"

Free(t) == req[t].pc = "idle"

\* the request has its answer; Return hands it to the caller
Respond(r, status) == [r EXCEPT !.status = status, !.pc = "respond"]

\* an answer is handed over before anything else happens: Return touches only
\* the thread's own locals, so taking it first loses no interleaving
Quiet == \A u \in Threads : req[u].pc # "respond"

\* the place-order calls in a log
Orders(calls) == {i \in DOMAIN calls : calls[i].op \in {"open", "close"}}

\* ------------------------------------------------------------------ actions

\* main.py:195-205, 373-377  a delivery of body starts on the lowest free
\* thread: the body is read, the key built, and is_duplicate samples the clock
\* and tests the record; an exception of the reading is answered 'error'
Deliver(t, body) ==
    /\ Quiet
    /\ Free(t)
    /\ \A u \in Threads : Rank(u) < Rank(t) => ~Free(u)
    /\ nreq < MaxRequests
    /\ LET data == Parse(body)
           key == Key(data.action, data.market_position, data.position_size)
           current_time == 0    \* main.py:172  time.time()
           dup == IsDuplicate(last_action, key, current_time)
           rep == /\ rec_owner # NoOwner
                  /\ last_action.key = <<data.action, data.market_position,
                                          data.position_size>>
                  /\ current_time - last_action.time < DEDUP_WINDOW
           r == [BlankReq EXCEPT !.action = data.action,
                                 !.market_position = data.market_position,
                                 !.prev_market_position = data.prev_market_position,
                                 !.position_size = data.position_size,
                                 !.current_time = current_time, !.repeat = rep,
                                 !.pc = "upd_key"]
       IN  req' = [req EXCEPT ![t] =
                     IF data.raised
                     THEN Respond([BlankReq EXCEPT !.path = "except"], "error")
                     ELSE IF dup THEN Respond(r, "ignored") ELSE r]
    /\ nreq' = nreq + 1
    /\ UNCHANGED <<position_state, last_action, account, rec_owner,
                   rec_orders, rec_status>>

\* a TradingView alert is delivered
Receive(t) == \E body \in Signals : Deliver(t, body)

\* some body is delivered
ReceiveAny(t) == \E body \in Payloads : Deliver(t, body)

\* main.py:175  last_action['key'] = key
UpdKey(t) ==
    /\ Quiet
    /\ req[t].pc = "upd_key"
    /\ last_action' = [last_action EXCEPT !.key =
            Key(req[t].action, req[t].market_position, req[t].position_size)]
    /\ rec_owner' = NoOwner
    /\ rec_orders' = 0
    /\ rec_status' = "none"
    /\ req' = [req EXCEPT ![t].pc = "upd_time"]
    /\ UNCHANGED <<position_state, account, nreq>>

\* main.py:176  last_action['time'] = current_time
UpdTime(t) ==
    /\ Quiet
    /\ req[t].pc = "upd_time"
    /\ last_action' = [last_action EXCEPT !.time = req[t].current_time]
    /\ rec_owner' =
         IF last_action.key =
                Key(req[t].action, req[t].market_position, req[t].position_size)
         THEN t ELSE NoOwner
    /\ rec_orders' = 0
    /\ rec_status' = "none"
    /\ req' = [req EXCEPT ![t].pc = "fetch", ![t].current_time = 0]
    /\ UNCHANGED <<position_state, account, nreq>>

\* where a request goes after the fetches of lines 210-215
AfterFetch(r, path) ==
    IF path = "flat" THEN
        IF r.positions.long > 0 THEN "flat_long"
        ELSE IF r.positions.short > 0 THEN "flat_short"
        ELSE "flat_reset"
    ELSE IF path = "reverse" THEN
        IF r.positions[Opposite(HoldSide(r.action))] > 0 THEN "rev_close"
        ELSE "open"
    ELSE IF path = "pyramid" THEN "pyr_check"
    ELSE IF path = "new" THEN "open"
    ELSE "done"

\* main.py:210-217  get_current_price, get_account_balance, get_positions; the
\* first two read nothing the program shares, the third reads the account
Fetch(t) ==
    /\ Quiet
    /\ req[t].pc = "fetch"
    /\ \E p \in Prices, price_ok \in BOOLEAN :
        IF get_current_price(p, price_ok) = 0
        THEN req' = [req EXCEPT ![t] =
                       Respond([@ EXCEPT !.md_failed = TRUE], "error")]
        ELSE \E b \in Balances, bal_ok \in BOOLEAN, pos_ok \in BOOLEAN :
            LET positions == get_positions(account, pos_ok)
                r == [req[t] EXCEPT !.price = p,
                                    !.balance = get_account_balance(b, bal_ok),
                                    !.positions = positions,
                                    !.snap = positions,
                                    !.capped = AtCap(req[t].market_position,
                                                     positions, position_state),
                                    !.md_failed = (~bal_ok \/ ~pos_ok)]
                path == Branch(r.action, r.market_position,
                               r.prev_market_position, r.position_size,
                               positions)
                pc == AfterFetch(r, path)
            IN  req' = [req EXCEPT ![t] =
                            IF pc = "done"
                            THEN Respond([r EXCEPT !.path = path], "ignored")
                            ELSE [r EXCEPT !.path = path, !.pc = pc]]
    /\ UNCHANGED <<position_state, last_action, account, nreq, rec_owner,
                   rec_orders, rec_status>>

\* the reduce-only order close_position(symbol, side, qty) of request t
ClosePosition(t, side, qty, outcome, pc) ==
    /\ outcome \in CloseOutcomes(account, side)
    /\ account' = IF Executed(outcome) THEN ExecClose(account, side, qty)
                  ELSE account
    /\ req' = [req EXCEPT
                 ![t].calls = @ \o Sent(Call("close", side, qty, outcome),
                                        bitget_request_sends(outcome)),
                 ![t].pc = pc]
    /\ rec_orders' = IF rec_owner = t
                     THEN rec_orders + bitget_request_sends(outcome)
                     ELSE rec_orders

\* main.py:223-224
FlatCloseLong(t) ==
    /\ Quiet
    /\ req[t].pc = "flat_long"
    /\ \E o \in Outcomes :
        ClosePosition(t, "sell", req[t].positions.long, o,
                      IF req[t].positions.short > 0 THEN "flat_short"
                      ELSE "flat_reset")
    /\ UNCHANGED <<position_state, last_action, nreq, rec_owner, rec_status>>

\* main.py:225-226
FlatCloseShort(t) ==
    /\ Quiet
    /\ req[t].pc = "flat_short"
    /\ \E o \in Outcomes :
        ClosePosition(t, "buy", req[t].positions.short, o, "flat_reset")
    /\ UNCHANGED <<position_state, last_action, nreq, rec_owner, rec_status>>

\* main.py:228-229
FlatReset(t) ==
    /\ Quiet
    /\ req[t].pc = "flat_reset"
    /\ position_state' = update_state(position_state, "reset")
    /\ req' = [req EXCEPT ![t] = Respond([@ EXCEPT !.state_op = "reset"], "success")]
    /\ UNCHANGED <<last_action, account, nreq, rec_owner, rec_orders, rec_status>>

\* main.py:238-239, 308-309  the close of a reversal; the poll follows only a
\* close that answered success
RevClose(t) ==
    /\ Quiet
    /\ req[t].pc = "rev_close"
    /\ \E o \in Outcomes :
        ClosePosition(t, req[t].action,
                      req[t].positions[Opposite(HoldSide(req[t].action))], o,
                      IF o = "ok" THEN "rev_poll" ELSE "open")
    /\ UNCHANGED <<position_state, last_action, nreq, rec_owner, rec_status>>

\* main.py:243-249, 313-319  one get_positions of the confirmation loop; when
\* the loop ends the balance is read again
RevPoll(t) ==
    /\ Quiet
    /\ req[t].pc = "rev_poll"
    /\ \E pos_ok \in BOOLEAN :
        LET positions == get_positions(account, pos_ok)
            polls == req[t].polls + 1
            r == [req[t] EXCEPT !.positions = positions, !.polls = polls,
                                !.md_failed = @ \/ ~pos_ok]
        IN  IF PollDone(positions[Opposite(HoldSide(r.action))], polls)
            THEN \E b \in Balances, bal_ok \in BOOLEAN :
                    req' = [req EXCEPT ![t] =
                              [r EXCEPT !.balance = get_account_balance(b, bal_ok),
                                        !.md_failed = @ \/ ~bal_ok,
                                        !.pc = "open"]]
            ELSE req' = [req EXCEPT ![t] = r]
    /\ UNCHANGED <<position_state, last_action, account, nreq, rec_owner,
                   rec_orders, rec_status>>

\* main.py:266-268, 336-338  the pyramiding test reads position_state
PyrCheck(t) ==
    /\ Quiet
    /\ req[t].pc = "pyr_check"
    /\ req' = [req EXCEPT ![t] =
                 IF Entries(position_state, HoldSide(@.action)) >= MAX_PYRAMIDING
                 THEN Respond(@, "ignored")
                 ELSE [@ EXCEPT !.pc = "open"]]
    /\ UNCHANGED <<position_state, last_action, account, nreq, rec_owner,
                   rec_orders, rec_status>>

\* main.py:290-291, 360-361  only the new-position branch tests the balance
BalanceGuard(path, balance) == path = "new" /\ balance <= 0

\* main.py:252-261, 272-281, 287-299 and the sell twins: set_leverage, then
\* the order sized from balance and price
Open(t) ==
    /\ Quiet
    /\ req[t].pc = "open"
    /\ LET r == req[t]
           side == r.action
           lev == Call("set_leverage", HoldSide(side), LEVERAGE, "ok")
           qty == Quantity(r.balance, r.price)
       IN  IF BalanceGuard(r.path, r.balance)
           THEN /\ req' = [req EXCEPT ![t] =
                             Respond([r EXCEPT !.calls = @ \o <<lev>>], "error")]
                /\ UNCHANGED <<account, rec_orders>>
           ELSE \E o \in OpenOutcomes(qty) :
                /\ account' = IF Executed(o) THEN ExecOpen(account, side, qty)
                              ELSE account
                /\ rec_orders' = IF rec_owner = t
                                 THEN rec_orders + bitget_request_sends(o)
                                 ELSE rec_orders
                /\ LET r2 == [r EXCEPT !.calls =
                                 @ \o <<lev>>
                                   \o Sent(Call("open", side, qty, o),
                                           bitget_request_sends(o))]
                   IN  req' = [req EXCEPT ![t] =
                                 IF o = "ok" THEN [r2 EXCEPT !.pc = "upd"]
                                 ELSE Respond(r2, "error")]
    /\ UNCHANGED <<position_state, last_action, nreq, rec_owner, rec_status>>

\* main.py:258-261  update_state('add_long' / 'add_short') and the answer
UpdateState(t) ==
    /\ Quiet
    /\ req[t].pc = "upd"
    /\ LET op == IF req[t].action = "buy" THEN "add_long" ELSE "add_short"
       IN  /\ position_state' = update_state(position_state, op)
           /\ req' = [req EXCEPT ![t] = Respond([@ EXCEPT !.state_op = op], "success")]
    /\ UNCHANGED <<last_action, account, nreq, rec_owner, rec_orders, rec_status>>

\* main.py:205-377  the return of webhook(): the answer goes to the caller and
\* the thread's locals are gone
Return(t) ==
    /\ req[t].pc = "respond"
    /\ req' = [req EXCEPT ![t] = BlankReq]
    /\ rec_owner' = IF rec_owner = t THEN Answered ELSE rec_owner
    /\ rec_status' = IF rec_owner = t THEN req[t].status ELSE rec_status
    /\ UNCHANGED <<position_state, last_action, account, nreq, rec_orders>>

\* a second passes: the record's timestamp, and the clock sample of a thread
\* inside is_duplicate, are a second older
Tick ==
    /\ Quiet
    /\ last_action' = [last_action EXCEPT !.time = Past(@, 1)]
    /\ req' = [t \in Threads |->
                 IF req[t].pc \in {"upd_key", "upd_time"}
                 THEN [req[t] EXCEPT !.current_time = Past(@, 1)]
                 ELSE req[t]]
    /\ <<last_action', req'>> # <<last_action, req>>
    /\ UNCHANGED <<position_state, account, nreq, rec_owner, rec_orders, rec_status>>

\* the steps of the request on thread t once it is received
Step(t) ==
    \/ UpdKey(t)
    \/ UpdTime(t)
    \/ Fetch(t)
    \/ FlatCloseLong(t)
    \/ FlatCloseShort(t)
    \/ FlatReset(t)
    \/ RevClose(t)
    \/ RevPoll(t)
    \/ PyrCheck(t)
    \/ Open(t)
    \/ UpdateState(t)
    \/ Return(t)

Next ==
    \/ Tick
    \/ \E t \in Threads : Receive(t)
    \/ \E t \in Threads : Step(t)

Spec == Init /\ [][Next]_vars

\* the webhook open to any body
NextAny ==
    \/ Tick
    \/ \E t \in Threads : ReceiveAny(t)
    \/ \E t \in Threads : Step(t)

SpecAny == Init /\ [][NextAny]_vars

\* the signals that open a position with nothing fetched on either side: a new
\* position, and a reversal with nothing to close
OpeningSignals ==
    { Signal("buy", "long", "flat", 1),
      Signal("buy", "long", "short", 1),
      Signal("sell", "short", "flat", 1),
      Signal("sell", "short", "long", 1) }

\* the program at rest after its first delivery, two seconds or more ago: the
\* alert was answered 'error' on the price, or it opened a long, or a short
InitSettled ==
    /\ nreq = 1
    /\ req = [t \in Threads |-> BlankReq]
    /\ rec_owner = Answered
    /\ \E first \in {"error", "success"}, body \in OpeningSignals :
        LET data == Parse(body)
            qty == Quantity(4, 2)
            done == first = "success"
        IN  /\ data.prev_market_position = "flat"
            /\ last_action =
                 [key |-> Key(data.action, data.market_position,
                              data.position_size),
                  time |-> Past(0, DEDUP_WINDOW)]
            /\ rec_status = first
            /\ rec_orders = IF done THEN 1 ELSE 0
            /\ account = IF done THEN ExecOpen(Zero, data.action, qty) ELSE Zero
            /\ position_state =
                 IF ~done THEN [long_entries |-> 0, short_entries |-> 0]
                 ELSE update_state([long_entries |-> 0, short_entries |-> 0],
                                   IF data.action = "buy" THEN "add_long"
                                   ELSE "add_short")

\* every thread is scheduled again and again, and every call it makes comes
\* back (main.py:61-63, timeout=10), so a request that can take a step does
FairSettled ==
    InitSettled /\ [][NextAny]_vars /\ \A t \in Threads : WF_vars(Step(t))

\* main.py:210-217  a first request that has passed is_duplicate and fetched a
\* price, a balance and no position, and is about to size its order
InitSizing ==
    /\ position_state = [long_entries |-> 0, short_entries |-> 0]
    /\ account = Zero
    /\ nreq = 1
    /\ rec_owner = ThreadSeq[1]
    /\ rec_orders = 0
    /\ rec_status = "none"
    /\ \E body \in OpeningSignals, b \in 0..SizingBalanceMax,
          p \in 1..SizingPriceMax :
        LET data == Parse(body)
            r == [BlankReq EXCEPT
                    !.action = data.action,
                    !.market_position = data.market_position,
                    !.prev_market_position = data.prev_market_position,
                    !.position_size = data.position_size,
                    !.price = get_current_price(p, TRUE),
                    !.balance = get_account_balance(b, TRUE),
                    !.path = Branch(data.action, data.market_position,
                                    data.prev_market_position,
                                    data.position_size, Zero),
                    !.pc = "open"]
        IN  /\ last_action =
                 [key |-> Key(data.action, data.market_position,
                              data.position_size),
                  time |-> 0]
            /\ req = [t \in Threads |-> IF t = ThreadSeq[1] THEN r ELSE BlankReq]

\* main.py:252-261, 287-299  the rest of that request
NextSizing ==
    \E t \in Threads :
        \/ Open(t)
        \/ UpdateState(t)
        \/ Return(t)

SpecSizing == InitSizing /\ [][NextSizing]_vars

\* ------------------------------------------------------------------- claims

Opens(calls) == {i \in DOMAIN calls : calls[i].op = "open"}
Closes(calls, side) ==
    {i \in DOMAIN calls : calls[i].op = "close" /\ calls[i].side = side}

\* C1 (as amended): a signal delivered while last_action holds its key with a
\* timestamp less than DEDUP_WINDOW old is answered 'ignored' at once: it makes
\* no Bitget call and no update_state call.
C1_RepeatIgnored ==
    \A t \in Threads :
        req[t].repeat =>
            /\ req[t].pc = "respond"
            /\ req[t].status = "ignored"
            /\ req[t].calls = <<>>
            /\ req[t].state_op = "none"

\* C1 witness: a repeat is answered 'ignored' after the first delivery of the
\* signal was answered, having placed its close and its open.
C1_Witness ==
    \E t \in Threads :
        /\ req[t].repeat
        /\ req[t].status = "ignored"
        /\ rec_owner = Answered
        /\ rec_orders = 2

\* C1 (as claimed): when a signal is delivered again within the window of its
\* first, answered, delivery and nothing was recorded in between, the second
\* is ignored and places no order, and the two deliveries together have placed
\* exactly one order.
C1_ExactlyOneOrder ==
    \A t \in Threads :
        (req[t].repeat /\ rec_owner = Answered) =>
            /\ req[t].status = "ignored"
            /\ Orders(req[t].calls) = {}
            /\ rec_orders + Cardinality(Orders(req[t].calls)) = 1

\* C2: of the requests that carry the same key and sampled the clock less than
\* DEDUP_WINDOW apart, at most one is on the non-duplicate branch of
\* is_duplicate (lines 175-177).
C2_OneNonDuplicate ==
    \A t, u \in Threads :
        (/\ t # u
         /\ req[t].pc \in {"upd_key", "upd_time"}
         /\ req[u].pc \in {"upd_key", "upd_time"}
         /\ Key(req[t].action, req[t].market_position, req[t].position_size)
              = Key(req[u].action, req[u].market_position, req[u].position_size))
        => ~(/\ req[t].current_time - req[u].current_time < DEDUP_WINDOW
             /\ req[u].current_time - req[t].current_time < DEDUP_WINDOW)

\* C3: when the positions fetched show a quantity Q > 0 on the side opposite to
\* the signal's marketPosition, every opening order of the request comes after
\* a reduce-only close of exactly Q of that side (buy closes a short, sell a
\* long).
C3_CloseBeforeOpen ==
    \A t \in Threads :
        LET r == req[t] IN
        (/\ r.market_position \in {"long", "short"}
         /\ r.snap[Opposite(r.market_position)] > 0)
        => \A i \in Opens(r.calls) :
             \E j \in 1..(i - 1) :
                /\ r.calls[j].op = "close"
                /\ r.calls[j].side =
                     (IF r.market_position = "long" THEN "buy" ELSE "sell")
                /\ r.calls[j].qty = r.snap[Opposite(r.market_position)]

\* C4: long_entries and short_entries never exceed MAX_PYRAMIDING.
C4_PyramidingCap ==
    /\ position_state.long_entries <= MAX_PYRAMIDING
    /\ position_state.short_entries <= MAX_PYRAMIDING

\* the reduce-only orders a flat signal is to place for the positions pos
FlatCloses(pos) ==
    (IF pos.long > 0 THEN <<[op |-> "close", side |-> "sell", qty |-> pos.long]>>
     ELSE <<>>)
    \o (IF pos.short > 0
        THEN <<[op |-> "close", side |-> "buy", qty |-> pos.short]>>
        ELSE <<>>)

\* C5: a request whose marketPosition is flat, whatever its positionSize, once
\* it has its market data, places a reduce-only sell of the long quantity iff
\* that is positive and a reduce-only buy of the short quantity iff that is
\* positive, places nothing else, resets the tracker and answers success.
C5_FlatHandling ==
    \A t \in Threads :
        LET r == req[t] IN
        (r.market_position = "flat" /\ r.pc = "respond" /\ r.path # "none")
        => /\ [i \in DOMAIN r.calls |->
                 [op |-> r.calls[i].op, side |-> r.calls[i].side,
                  qty |-> r.calls[i].qty]] = FlatCloses(r.snap)
           /\ r.state_op = "reset"
           /\ r.status = "success"

\* C6: whenever no request is in progress the account does not hold a long and
\* a short quantity at once.
C6_OneSideWhenSettled ==
    (\A t \in Threads : req[t].pc = "idle")
    => ~(account.long > 0 /\ account.short > 0)

\* C7: a request in which the price, balance or positions call failed (or the
\* price was not positive) is answered 'error' and has placed no order.
C7_MarketDataUnavailable ==
    \A t \in Threads :
        (req[t].md_failed /\ req[t].pc = "respond")
        => /\ req[t].status = "error"
           /\ Orders(req[t].calls) = {}

\* C8: open_position is called only when balance * POSITION_SIZE_PERCENT *
\* LEVERAGE reaches the minimum notional, and a request that got as far as
\* sizing an order with less is answered 'error'.
C8_InsufficientExposure ==
    \A t \in Threads :
        LET r == req[t] IN
        Exposure100(r.balance) < 100 * MinNotional
        => /\ Opens(r.calls) = {}
           /\ (/\ r.pc = "respond"
               /\ \E i \in DOMAIN r.calls : r.calls[i].op = "set_leverage")
              => r.status = "error"

\* C9: a request in which some place-order call answered non-success is
\* answered 'error'.
C9_FailureSurfaced ==
    \A t \in Threads :
        (/\ req[t].pc = "respond"
         /\ \E i \in Orders(req[t].calls) : ~req[t].calls[i].ok)
        => req[t].status = "error"

\* C10: a request sends at most one opening order, at most one reduce-only
\* sell and at most one reduce-only buy, whatever the exchange answers.
C10_NoRetry ==
    \A t \in Threads :
        /\ Cardinality(Opens(req[t].calls)) <= 1
        /\ Cardinality(Closes(req[t].calls, "sell")) <= 1
        /\ Cardinality(Closes(req[t].calls, "buy")) <= 1

\* C10 witness: a reversal whose close answered success and whose open did not
\* has been answered with one close and one open sent.
C10_Witness ==
    \E t \in Threads :
        LET r == req[t] IN
        /\ r.pc = "respond"
        /\ r.status = "error"
        /\ Cardinality(Orders(r.calls)) = 2
        /\ \E i \in Opens(r.calls) : ~r.calls[i].ok
        /\ \E i \in Closes(r.calls, r.action) : r.calls[i].ok

\* the body of request r was no alert: reading it raised, or it gave no action
\* or no marketPosition
Malformed(r) == r.path = "except" \/ r.action = "" \/ r.market_position = ""

\* C11: a request whose body cannot be read as a signal (not JSON, action or
\* marketPosition missing, a field of the wrong type, positionSize no number)
\* is answered 'ignored', has placed no order and has not touched the tracker.
C11_MalformedIgnored ==
    \A t \in Threads :
        (req[t].pc = "respond" /\ Malformed(req[t]))
        => /\ req[t].status = "ignored"
           /\ Orders(req[t].calls) = {}
           /\ req[t].state_op = "none"

\* C12: a request that fetched an open position on the side its signal asks for
\* while that side's entries had reached MAX_PYRAMIDING makes no set-leverage
\* call, places no order, makes no update_state call and is answered with a
\* success-style status.
C12_PyramidLimitNoOp ==
    \A t \in Threads :
        req[t].capped
        => /\ req[t].calls = <<>>
           /\ req[t].state_op = "none"
           /\ req[t].pc = "respond" => req[t].status \in {"ignored", "success"}

\* C13: long_entries and short_entries are naturals and are never both
\* positive.
C13_TrackerInvariant ==
    /\ position_state.long_entries \in Nat
    /\ position_state.short_entries \in Nat
    /\ ~(position_state.long_entries > 0 /\ position_state.short_entries > 0)

\* C13 witness: a reversal that fetched a position on the other side has been
\* recorded by update_state.
C13_Witness ==
    \E t \in Threads :
        LET r == req[t] IN
        /\ r.pc = "respond"
        /\ r.path = "reverse"
        /\ r.snap[Opposite(HoldSide(r.action))] > 0
        /\ r.state_op \in {"add_long", "add_short"}
        /\ Entries(position_state, HoldSide(r.action)) > 0

\* C14: a request increments an entry counter only when its opening order
\* answered success, resets the tracker only when every close it placed
\* answered success, and calls update_state not at all when one of its orders
\* failed.
C14_TrackerAfterConfirmedOrder ==
    \A t \in Threads :
        LET r == req[t] IN
        /\ r.state_op \in {"add_long", "add_short"}
             => \E i \in Opens(r.calls) : r.calls[i].ok
        /\ r.state_op = "reset"
             => \A i \in Orders(r.calls) : r.calls[i].ok
        /\ (\E i \in Orders(r.calls) : ~r.calls[i].ok) => r.state_op = "none"

\* C17: a reversal whose reduce-only close answered failure makes no
\* set-leverage call, places no opening order and is answered 'error'.
C17_FailedCloseStops ==
    \A t \in Threads :
        LET r == req[t] IN
        (/\ r.path = "reverse"
         /\ \E i \in Closes(r.calls, r.action) : ~r.calls[i].ok)
        => /\ \A i \in DOMAIN r.calls : r.calls[i].op = "close"
           /\ r.pc = "respond" => r.status = "error"

\* C16: is_duplicate reports a duplicate exactly when the record holds the
\* request's key with a time less than DEDUP_WINDOW before the clock sample
\* (so never for a key other than the recorded one) and then leaves the record
\* as it is; otherwise it stores the key, then the clock sample.
C16_SingleSlot ==
    [][\A t \in Threads :
        /\ (req[t].pc = "idle" /\ req'[t].pc # "idle" /\ req'[t].path # "except")
           => LET key == <<req'[t].action, req'[t].market_position,
                           req'[t].position_size>>
                  hit == /\ last_action.key = key
                         /\ 0 - last_action.time < DEDUP_WINDOW
              IN  /\ hit <=> (req'[t].pc = "respond" /\ req'[t].status = "ignored")
                  /\ ~hit => req'[t].pc = "upd_key"
                  /\ last_action.key # key => req'[t].pc = "upd_key"
                  /\ last_action' = last_action
        /\ (req[t].pc = "upd_key" /\ req'[t].pc # "upd_key")
           => /\ req'[t].pc = "upd_time"
              /\ last_action'.key = <<req[t].action, req[t].market_position,
                                      req[t].position_size>>
              /\ last_action'.time = last_action.time
        /\ (req[t].pc = "upd_time" /\ req'[t].pc # "upd_time")
           => /\ last_action'.time = req[t].current_time
              /\ last_action'.key = last_action.key
      ]_vars

\* C16 witness: with a first request still at work, its signal is delivered
\* again and accepted, the record holding another key stored within the window.
C16_Witness ==
    \E t, u \in Threads :
        /\ t # u
        /\ req[t].pc = "upd_key"
        /\ req[u].pc \notin {"idle", "upd_key", "upd_time", "respond"}
        /\ Key(req[u].action, req[u].market_position, req[u].position_size)
             = Key(req[t].action, req[t].market_position, req[t].position_size)
        /\ last_action.key
             # Key(req[t].action, req[t].market_position, req[t].position_size)
        /\ 0 - last_action.time < DEDUP_WINDOW

\* C19: a signal delivered again while the record still holds its key, less
\* than DEDUP_WINDOW old, written by a request that was answered 'error', is
\* answered 'ignored' and places no order.
C19_FailedSignalOccupiesSlot ==
    \A t \in Threads :
        (req[t].repeat /\ rec_owner = Answered /\ rec_status = "error")
        => /\ req[t].pc = "respond"
           /\ req[t].status = "ignored"
           /\ Orders(req[t].calls) = {}

\* C19 witness: the repeat of a signal whose request was answered 'error'
\* without an order is answered 'ignored', a second after the first delivery.
C19_Witness ==
    \E t \in Threads :
        /\ req[t].repeat
        /\ req[t].status = "ignored"
        /\ rec_owner = Answered
        /\ rec_status = "error"
        /\ rec_orders = 0
        /\ last_action.time < 0

\* the request has read a signal that does not take the flat branch and whose
\* action and marketPosition are not buy with long or sell with short
Inconsistent(r) ==
    /\ r.pc # "idle"
    /\ r.path # "except"
    /\ ~(r.position_size = 0 /\ r.market_position = "flat")
    /\ <<r.action, r.market_position>> \notin {<<"buy", "long">>, <<"sell", "short">>}

\* an opening order of the request r is a buy of a buy/long signal or a sell of
\* a sell/short signal, and follows a set_leverage call for its side
OpensAgree(r) ==
    \A i \in Opens(r.calls) :
        /\ r.calls[i].side = r.action
        /\ <<r.action, r.market_position>> \in {<<"buy", "long">>, <<"sell", "short">>}
        /\ \E j \in 1..(i - 1) :
              /\ r.calls[j].op = "set_leverage"
              /\ r.calls[j].side = HoldSide(r.calls[i].side)

\* C20 (as claimed): every opening order agrees with the signal and follows a
\* set_leverage call for its side, and a request whose action and
\* marketPosition do not go together is answered 'ignored', having placed no
\* order and left the tracker alone.
C20_SideAgreesIgnored ==
    \A t \in Threads :
        /\ OpensAgree(req[t])
        /\ Inconsistent(req[t]) /\ req[t].pc = "respond"
           => /\ req[t].status = "ignored"
              /\ Orders(req[t].calls) = {}
              /\ req[t].state_op = "none"

\* C20 (as amended): the same, the answer being 'ignored' or, when the price
\* was not to be had, 'error'.
C20_SideAgrees ==
    \A t \in Threads :
        /\ OpensAgree(req[t])
        /\ Inconsistent(req[t])
           => /\ req[t].calls = <<>>
              /\ req[t].state_op = "none"
              /\ req[t].pc = "respond"
                   => \/ req[t].status = "ignored"
                      \/ /\ req[t].status = "error"
                         /\ req[t].path = "none"
                         /\ req[t].md_failed

\* C20 witness: with a long open, a buy/short signal has its market data and is
\* answered 'ignored' without a call to the exchange.
C20_Witness ==
    \E t \in Threads :
        /\ req[t].pc = "respond"
        /\ req[t].action = "buy"
        /\ req[t].market_position = "short"
        /\ req[t].path = "ignored"
        /\ req[t].snap.long > 0
        /\ req[t].status = "ignored"

\* C18: the quantity of every opening order, times the price, does not exceed
\* balance * POSITION_SIZE_PERCENT * LEVERAGE and falls short of it by less
\* than the price of one size increment (10^-ROUND_DIGITS).
C18_RoundsDown ==
    \A t \in Threads :
        LET r == req[t] IN
        \A i \in Opens(r.calls) :
            /\ r.calls[i].qty * r.price * 100
                 <= Exposure100(r.balance) * Pow10(ROUND_DIGITS)
            /\ Exposure100(r.balance) * Pow10(ROUND_DIGITS)
                   - r.calls[i].qty * r.price * 100
                 < r.price * 100

\* C15: every request that has started gets its answer, whose status is one of
\* success, ignored and error, and on its way reads the positions at most
\* POLL_ATTEMPTS times in the confirmation loop.
C15_Terminates ==
    /\ [](\A t \in Threads : req[t].polls <= POLL_ATTEMPTS)
    /\ \A t \in Threads :
          (req[t].pc # "idle")
            ~> (/\ req[t].pc = "respond"
                /\ req[t].status \in {"success", "ignored", "error"})

\* C15 witness: a reversal has its answer after the confirmation loop read the
\* positions POLL_ATTEMPTS times without seeing the closed side at 0.
C15_Witness ==
    \E t \in Threads :
        /\ req[t].pc = "respond"
        /\ req[t].polls = POLL_ATTEMPTS
        /\ req[t].positions[Opposite(HoldSide(req[t].action))] > 0
        /\ req[t].status \in {"success", "error"}

====
